---- MODULE Spec2Model ----
(***************************************************************************)
(* votd: src/main.rs.  One invocation of the program is a process that     *)
(* walks through main(): open the cache file, stat it, read it or fetch    *)
(* from the network, print, write the cache back.  The cache file, the     *)
(* clock and the remote service are shared with every other invocation.    *)
(*                                                                         *)
(* Strings are sequences of character codes, files are sequences of bytes. *)
(* Environment faults: the write-back may fail with an I/O error and the   *)
(* platform may give no cache directory; opening, stat-ing and reading the *)
(* cache file succeed.                                                     *)
(***************************************************************************)
EXTENDS Integers, Sequences, FiniteSets, TLC

\* ------------------------------------------------------------------ bounds

\* number of clock steps
MaxTicks == 2
\* longest array of fragments the remote service answers with
MaxFrags == 3

\* --------------------------------------------------------------- constants

CACHE_EXPIRE_TIME == 21600

Procs == {1, 2}

\* the amounts of seconds the clock advances by in one step
TickSteps == {1, CACHE_EXPIRE_TIME}

\* Option<T> as a sequence of length 0 or 1
None == << >>
Some(x) == << x >>

\* ------------------------------------------------------------- i32 <-> str

IsDigit(c) == c >= 48 /\ c <= 57

RECURSIVE DigitsVal(_)
DigitsVal(ds) ==
    IF ds = << >> THEN 0
    ELSE 10 * DigitsVal(SubSeq(ds, 1, Len(ds) - 1)) + (ds[Len(ds)] - 48)

\* str::parse::<i32>: an optional sign, then at least one digit.  Up to nine
\* digits always fit an i32; longer numerals do not occur in the responses
\* here and are taken as out of range.
ParseI32(s) ==
    LET signed == Len(s) > 0 /\ s[1] \in {43, 45}
        ds     == IF signed THEN Tail(s) ELSE s
    IN  IF ds = << >> \/ \E i \in 1..Len(ds) : ~IsDigit(ds[i])
        THEN [ok |-> FALSE, val |-> 0]
        ELSE IF Len(ds) > 9
             THEN [ok |-> FALSE, val |-> 0]
             ELSE [ok |-> TRUE,
                   val |-> IF signed /\ s[1] = 45 THEN 0 - DigitsVal(ds)
                           ELSE DigitsVal(ds)]

RECURSIVE NatDigits(_)
NatDigits(n) ==
    IF n < 10 THEN << 48 + n >>
    ELSE NatDigits(n \div 10) \o << 48 + (n % 10) >>

\* Display of an i32 in format!("{}")
FormatI32(n) == IF n < 0 THEN << 45 >> \o NatDigits(0 - n) ELSE NatDigits(n)

\* ------------------------------------------------------------- fetch_verse

\* the ApiVerse records the remote service answers with in this model:
\* "J" 3:1 "a", "J" 3:2 "b", a chapter and a verse that are no integers
ApiJ31   == [bookname |-> <<74>>, chapter |-> <<51>>, verse |-> <<49>>, text |-> <<97>>]
ApiJ32   == [bookname |-> <<74>>, chapter |-> <<51>>, verse |-> <<50>>, text |-> <<98>>]
ApiBadCh == [bookname |-> <<74>>, chapter |-> <<120>>, verse |-> <<49>>, text |-> <<97>>]
ApiBadVs == [bookname |-> <<74>>, chapter |-> <<51>>, verse |-> <<120>>, text |-> <<97>>]

Bodies ==
    { << >>, <<ApiJ31>>, <<ApiJ31, ApiJ32>>, <<ApiBadCh>>, <<ApiJ31, ApiBadVs>> }

\* what one request can end in: the reqwest failures, or a JSON array
Responses ==
    { [status |-> s, body |-> << >>] : s \in {"timeout", "connect", "status", "decode"} }
    \cup { [status |-> "ok", body |-> b] : b \in Bodies }

\* further ApiVerse records: a text of two characters, numerals with a
\* leading zero and a sign and no text, a verse number of two digits, and
\* verse 1 of another book and chapter
ApiJ32bc  == [bookname |-> <<74>>, chapter |-> <<51>>, verse |-> <<50>>, text |-> <<98, 99>>]
ApiJ03p1  == [bookname |-> <<74>>, chapter |-> <<48, 51>>, verse |-> <<43, 49>>, text |-> << >>]
ApiJ316   == [bookname |-> <<74>>, chapter |-> <<51>>, verse |-> <<49, 54>>, text |-> <<100>>]
ApiK41    == [bookname |-> <<75>>, chapter |-> <<52>>, verse |-> <<49>>, text |-> <<101>>]

Fragments == { ApiJ31, ApiJ32bc, ApiJ03p1, ApiJ316, ApiK41, ApiBadCh, ApiBadVs }

\* the arrays of up to n fragments
RECURSIVE FragSeqs(_)
FragSeqs(n) ==
    IF n = 0 THEN { << >> }
    ELSE LET shorter == FragSeqs(n - 1)
         IN  shorter \cup { Append(fs, f) : fs \in shorter, f \in Fragments }

\* the successful responses with any array of up to MaxFrags fragments
WideResponses == { [status |-> "ok", body |-> b] : b \in FragSeqs(MaxFrags) }

RECURSIVE ConcatTextReversed(_)
\* line 98 with the fold prepending
ConcatTextReversed(verses) ==
    IF verses = << >> THEN << >>
    ELSE verses[Len(verses)].text
         \o ConcatTextReversed(SubSeq(verses, 1, Len(verses) - 1))

RECURSIVE ConcatText(_)
\* verses.iter().fold("".to_owned(), |acc, e| acc + &e.text)
ConcatText(verses) ==
    IF verses = << >> THEN << >>
    ELSE ConcatText(SubSeq(verses, 1, Len(verses) - 1)) \o verses[Len(verses)].text

\* lines 93-97 without the comparison: always a range
TitleAlwaysRange(book, chapter, verse_start, verse_end) ==
    book \o <<32>> \o FormatI32(chapter) \o <<58>> \o FormatI32(verse_start)
         \o <<45>> \o FormatI32(verse_end)

\* lines 93-97 with the range built from the verse number of the second
\* fragment's place, the start, twice
TitleStartTwice(book, chapter, verse_start, verse_end) ==
    IF verse_start = verse_end
    THEN book \o <<32>> \o FormatI32(chapter) \o <<58>> \o FormatI32(verse_start)
    ELSE book \o <<32>> \o FormatI32(chapter) \o <<58>> \o FormatI32(verse_start)
              \o <<45>> \o FormatI32(verse_start)

\* lines 93-97
Title(book, chapter, verse_start, verse_end) ==
    IF verse_start = verse_end
    THEN book \o <<32>> \o FormatI32(chapter) \o <<58>> \o FormatI32(verse_start)
    ELSE book \o <<32>> \o FormatI32(chapter) \o <<58>> \o FormatI32(verse_start)
              \o <<45>> \o FormatI32(verse_end)

Ok(v)      == [kind |-> "ok", verse |-> v, err |-> ""]
Err(e)     == [kind |-> "err", verse |-> [title |-> << >>, text |-> << >>], err |-> e]
Panic(msg) == [kind |-> "panic", verse |-> [title |-> << >>, text |-> << >>], err |-> msg]

\* fetch_verse without the assertion of line 78: an empty array gives a
\* verse of no title and no text
fetch_verseUnasserted(r) ==
    IF r.status # "ok" THEN Err(r.status)
    ELSE IF r.body = << >> THEN Ok([title |-> << >>, text |-> << >>])
    ELSE LET verses      == r.body
             chapter     == ParseI32(verses[1].chapter)
             verse_start == ParseI32(verses[1].verse)
             verse_end   == ParseI32(verses[Len(verses)].verse)
         IN  IF ~chapter.ok THEN Panic("Chapters should be valid integers")
             ELSE IF ~verse_start.ok \/ ~verse_end.ok
                  THEN Panic("Verses should be valid integers")
                  ELSE Ok([title |-> Title(verses[1].bookname, chapter.val,
                                            verse_start.val, verse_end.val),
                           text  |-> ConcatText(verses)])

\* the result of fetch_verse on the response r of the one request it sends
fetch_verse(r) ==
    IF r.status # "ok" THEN Err(r.status)
    ELSE IF r.body = << >> THEN Panic("No verses returned")
    ELSE LET verses      == r.body
             chapter     == ParseI32(verses[1].chapter)
             verse_start == ParseI32(verses[1].verse)
             verse_end   == ParseI32(verses[Len(verses)].verse)
         IN  IF ~chapter.ok THEN Panic("Chapters should be valid integers")
             ELSE IF ~verse_start.ok \/ ~verse_end.ok
                  THEN Panic("Verses should be valid integers")
                  ELSE Ok([title |-> Title(verses[1].bookname, chapter.val,
                                            verse_start.val, verse_end.val),
                           text  |-> ConcatText(verses)])

\* ------------------------------------------------------------ unwrap_error

\* the line unwrap_error prints for a reqwest error
ErrorLine(e) ==
    CASE e = "timeout" -> "Error: timeout exceeded"
      [] e = "status"  -> "Server returned an error; is the verse you requested valid?"
      [] e = "connect" -> "Couldn't connect to server; are you connected to the Internet?"
      [] OTHER         -> "Error: error decoding response body"

\* what a panic of the main thread prints
PanicLines(msg) ==
    << "thread 'main' panicked:", msg,
       "note: run with RUST_BACKTRACE=1 environment variable to display a backtrace" >>

ExitFetchError == 1
ExitPanic == 101
ExitSuccess == 0

\* ------------------------------------------------ rmp_serde (MessagePack)

\* the marker and length bytes of a str: fixstr below 32 bytes, str 8 above
StrMarker(s) == IF Len(s) < 32 THEN << 160 + Len(s) >> ELSE << 217, Len(s) >>

\* rmp_serde::encode::write hands the writer one piece after the other: the
\* array header of the struct, then marker and bytes of each field.  A
\* piece of no bytes is no write.
Chunks(v) ==
    SelectSeq(<< <<146>>, StrMarker(v.title), v.title, StrMarker(v.text), v.text >>,
              LAMBDA c : c # << >>)

RECURSIVE Flatten(_)
Flatten(cs) == IF cs = << >> THEN << >> ELSE Head(cs) \o Flatten(Tail(cs))

\* the bytes of a Verse
Serialize(v) == Flatten(Chunks(v))

\* a str at index i of b: its bytes must all be there and be UTF-8 (of the
\* bytes that occur here, those below 128)
ReadStr(b, i) ==
    LET bad  == [ok |-> FALSE, s |-> << >>, next |-> i]
        fix  == i <= Len(b) /\ b[i] >= 160 /\ b[i] <= 191
        str8 == i + 1 <= Len(b) /\ b[i] = 217
        n    == IF fix THEN b[i] - 160 ELSE b[i + 1]
        from == IF fix THEN i + 1 ELSE i + 2
        s    == SubSeq(b, from, from + n - 1)
    IN  IF ~fix /\ ~str8 THEN bad
        ELSE IF from + n - 1 > Len(b) THEN bad
        ELSE IF \E k \in 1..Len(s) : s[k] >= 128 THEN bad
        ELSE [ok |-> TRUE, s |-> s, next |-> from + n]

\* rmp_serde::from_slice::<Verse>: an array of two strs at the start of the
\* slice; what follows it is not looked at
Deserialize(b) ==
    IF Len(b) < 1 \/ b[1] # 146 THEN None
    ELSE LET title == ReadStr(b, 2)
             text  == ReadStr(b, title.next)
         IN  IF ~title.ok \/ ~text.ok THEN None
             ELSE Some([title |-> title.s, text |-> text.s])

\* a write that goes to the end of the file, as with append(true)
WriteAtAppend(b, pos, c) == b \o c

\* File::write of chunk c at offset pos of a file holding b
WriteAt(b, pos, c) ==
    SubSeq(b, 1, pos) \o c \o SubSeq(b, pos + Len(c) + 1, Len(b))

\* ------------------------------------------------------------------- state

VARIABLES
    now,          \* the clock, in seconds
    ticks,        \* clock steps taken
    slot,         \* the cache file: [exists, bytes, mtime]
    lastWriter,   \* the process whose write reached the file last, 0 if none
    written,      \* the last write-back that went through: the verse and the
                  \* time of its fetch; None before it and while one is under way
    proc          \* per process: where it is in main() and its locals

vars == << now, ticks, slot, lastWriter, written, proc >>

VerseJ31  == fetch_verse([status |-> "ok", body |-> <<ApiJ31>>]).verse
VerseJ312 == fetch_verse([status |-> "ok", body |-> <<ApiJ31, ApiJ32>>]).verse

\* what the cache file holds before the first invocation: a verse, or bytes
\* that are no MessagePack
InitBytes == { Serialize(VerseJ312), << 193 >> }

Missing == [exists |-> FALSE, bytes |-> << >>, mtime |-> 0]

InitSlots == { Missing } \cup { [exists |-> TRUE, bytes |-> b, mtime |-> 0] : b \in InitBytes }

\* the command lines: no passage or the passage "votd", and the switches
\* that decide what is fetched and cached; the two switches that only change
\* the title line are left off here
ArgSet ==
    [ verse : { << >>, << "votd" >> }, no_cache : BOOLEAN, refresh_cache : BOOLEAN,
      only_verse : {FALSE}, show_translation : {FALSE} ]

\* the command lines with the two switches of the title line
ArgSetDisplay ==
    [ verse : { << >>, << "votd" >> }, no_cache : BOOLEAN, refresh_cache : BOOLEAN,
      only_verse : BOOLEAN, show_translation : BOOLEAN ]

Idle ==
    [ pc |-> "idle",
      args |-> [verse |-> << >>, no_cache |-> FALSE, refresh_cache |-> FALSE,
                only_verse |-> FALSE, show_translation |-> FALSE],
      cache_dir |-> TRUE, cache |-> None, stamp |-> 0, now |-> 0, verse |-> None, write_cache |-> FALSE,
      wbuf |-> << >>, log |-> << >>, exit |-> None, stderr |-> << >>, stdout |-> << >>,
      resp |-> None, fetched |-> 0, slot0 |-> Missing ]

Init ==
    /\ now = 0
    /\ ticks = 0
    /\ slot \in InitSlots
    /\ lastWriter = 0
    /\ written = None
    /\ proc = [p \in Procs |-> Idle]

\* ------------------------------------------------------------------ main()

\* lines 123-127
verse_requested(a) == IF a.verse # << >> THEN Some(a.verse) ELSE None

\* variants of line 131 that forget one of its two conditions
UseCacheForPassages(a) == ~a.no_cache
UseCacheDespiteSwitch(a) == a.verse = << >>

\* line 131: the cache is used for the verse of the day unless switched off
UseCache(a) == verse_requested(a) = None /\ ~a.no_cache

\* line 144 with < for <=
IsFreshStrict(t, stamp, refresh_cache) == t - stamp < CACHE_EXPIRE_TIME /\ ~refresh_cache

\* line 144 with the limit one second later
IsFreshLate(t, stamp, refresh_cache) ==
    t - stamp <= CACHE_EXPIRE_TIME + 1 /\ ~refresh_cache

\* line 144
IsFresh(t, stamp, refresh_cache) == t - stamp <= CACHE_EXPIRE_TIME /\ ~refresh_cache

\* line 159 with the flag the wrong way round
WriteCacheOnHitToo == TRUE

\* line 159: a verse read from the cache is not written back
WriteCacheOnHit == FALSE

\* line 163 with the flag the wrong way round
WriteCacheOnCorruptNever == FALSE

\* line 163: a verse fetched because the cache did not decode is written back
WriteCacheOnCorrupt == TRUE

\* line 167
WriteCacheOnFetch(a) == verse_requested(a) = None /\ ~a.no_cache

\* line 192 without the test of cache
ShouldWriteUnchecked(write_cache, cache) == write_cache

\* line 192
ShouldWrite(write_cache, cache) == write_cache /\ cache # None

\* lines 170-185 with the test of line 181 left out
TitleLineBare(a, v) ==
    IF a.only_verse THEN << >>
    ELSE << [title  |-> v.title,
             suffix |-> IF a.show_translation
                        THEN (IF verse_requested(a) = None
                              THEN " (Verse of the Day - NET)" ELSE " (NET)")
                        ELSE ""] >>

\* lines 170-185: the title line, the title and what is printed after it;
\* no line with --only-verse
TitleLine(a, v) ==
    IF a.only_verse THEN << >>
    ELSE << [title  |-> v.title,
             suffix |-> IF a.show_translation
                        THEN (IF verse_requested(a) = None
                              THEN " (Verse of the Day - NET)" ELSE " (NET)")
                        ELSE IF verse_requested(a) = None
                             THEN " (Verse of the Day)" ELSE ""] >>

\* the open of lines 133-139 with truncate(true)
OpenBytesTruncated(b) == << >>

\* lines 133-139: the open leaves the bytes of an existing file as they are
OpenBytes(b) == b

Exited(q, code, lines) == [q EXCEPT !.pc = "done", !.exit = Some(code), !.stderr = lines]

\* unwrap_error(fetch_verse(..).await) of process record q on response r,
\* continuing with write_cache = wc
Fetched(q, r, wc) ==
    LET res == fetch_verse(r)
        q1  == [q EXCEPT !.log = Append(@, "net"), !.resp = Some(r), !.fetched = now]
    IN  CASE res.kind = "ok" ->
                [q1 EXCEPT !.pc = "print", !.verse = Some(res.verse), !.write_cache = wc]
          [] res.kind = "err" -> Exited(q1, ExitFetchError, << ErrorLine(res.err) >>)
          [] OTHER -> Exited(q1, ExitPanic, PanicLines(res.err))

\* the process starts: argh::from_env and what the platform says of the
\* cache directory
Start(p) ==
    /\ proc[p].pc \in {"idle", "done"}
    /\ \E a \in ArgSet, dir \in BOOLEAN :
          proc' = [proc EXCEPT ![p] =
                      [Idle EXCEPT !.pc = "open", !.args = a, !.cache_dir = dir,
                                   !.slot0 = slot]]
    /\ UNCHANGED << now, ticks, slot, lastWriter, written >>

\* lines 131-140, 145-151
OpenCache(p) ==
    LET q == proc[p] IN
    /\ q.pc = "open"
    /\ IF UseCache(q.args)
       THEN IF q.cache_dir
            THEN /\ slot' = IF slot.exists THEN [slot EXCEPT !.bytes = OpenBytes(@)]
                            ELSE [exists |-> TRUE, bytes |-> << >>, mtime |-> now]
                 /\ proc' = [proc EXCEPT ![p] =
                               [q EXCEPT !.pc = "stat",
                                         !.cache = Some([fresh |-> FALSE, pos |-> 0]),
                                         !.log = IF slot.exists THEN Append(@, "open")
                                                 ELSE @ \o << "create", "open" >>]]
            ELSE /\ proc' = [proc EXCEPT ![p] =
                               [q EXCEPT !.pc = "resolve", !.log = Append(@, "warn")]]
                 /\ slot' = slot
       ELSE /\ proc' = [proc EXCEPT ![p] = [q EXCEPT !.pc = "resolve"]]
            /\ slot' = slot
    /\ UNCHANGED << now, ticks, lastWriter, written >>

\* lines 141-144
Stat(p) ==
    LET q == proc[p] IN
    /\ q.pc = "stat"
    /\ proc' = [proc EXCEPT ![p] =
                  [q EXCEPT !.pc = "resolve", !.stamp = slot.mtime, !.now = now,
                            !.cache = Some([fresh |-> IsFresh(now, slot.mtime,
                                                              q.args.refresh_cache),
                                            pos |-> 0])]]
    /\ UNCHANGED << now, ticks, slot, lastWriter, written >>

\* lines 153-160: the cache is there and fresh
ReadCache(p) ==
    LET q   == proc[p]
        buf == SubSeq(slot.bytes, q.cache[1].pos + 1, Len(slot.bytes))
        res == Deserialize(buf)
        q1  == [q EXCEPT !.log = Append(@, "read")]
    IN
    /\ q.pc = "resolve"
    /\ q.cache # None /\ q.cache[1].fresh
    /\ proc' = [proc EXCEPT ![p] =
                  IF res # None
                  THEN [q1 EXCEPT !.pc = "print", !.verse = res,
                                  !.write_cache = WriteCacheOnHit]
                  ELSE [q1 EXCEPT !.pc = "refetch"]]
    /\ UNCHANGED << now, ticks, slot, lastWriter, written >>

\* line 163
FetchCorrupt(p) ==
    /\ proc[p].pc = "refetch"
    /\ \E r \in Responses :
          proc' = [proc EXCEPT ![p] = Fetched(proc[p], r, WriteCacheOnCorrupt)]
    /\ UNCHANGED << now, ticks, slot, lastWriter, written >>

\* lines 165-168
FetchElse(p) ==
    LET q == proc[p] IN
    /\ q.pc = "resolve"
    /\ ~(q.cache # None /\ q.cache[1].fresh)
    /\ \E r \in Responses :
          proc' = [proc EXCEPT ![p] = Fetched(q, r, WriteCacheOnFetch(q.args))]
    /\ UNCHANGED << now, ticks, slot, lastWriter, written >>

\* lines 170-190: the verse goes to the terminal
PrintVerse(p) ==
    LET q == proc[p] IN
    /\ q.pc = "print"
    /\ q.verse # None
    /\ proc' = [proc EXCEPT ![p] =
                  [q EXCEPT !.pc = "write",
                            !.stdout = TitleLine(q.args, q.verse[1])
                                       \o << [text |-> q.verse[1].text] >>]]
    /\ UNCHANGED << now, ticks, slot, lastWriter, written >>

\* lines 192-194, up to the first write; line 196 when there is none
BeginWrite(p) ==
    LET q == proc[p] IN
    /\ q.pc = "write"
    /\ proc' = [proc EXCEPT ![p] =
                  IF ShouldWrite(q.write_cache, q.cache)
                  THEN IF q.cache = None
                       THEN Exited(q, ExitPanic,
                              PanicLines("Cache has to contain a value to reach this code"))
                       ELSE [q EXCEPT !.pc = "writing", !.wbuf = Chunks(q.verse[1]),
                                      !.log = Append(@, "write")]
                  ELSE Exited(q, ExitSuccess, << >>)]
    /\ UNCHANGED << now, ticks, slot, lastWriter, written >>

\* line 194: one write of the serializer reaches the file
WriteChunk(p) ==
    LET q   == proc[p]
        c   == Head(q.wbuf)
        pos == q.cache[1].pos
        q1  == [q EXCEPT !.wbuf = Tail(@),
                         !.cache = Some([fresh |-> q.cache[1].fresh, pos |-> pos + Len(c)])]
    IN
    /\ q.pc = "writing"
    /\ q.wbuf # << >>
    /\ slot' = [slot EXCEPT !.bytes = WriteAt(@, pos, c), !.mtime = now]
    /\ lastWriter' = p
    /\ written' = IF Tail(q.wbuf) = << >>
                  THEN Some([verse |-> q.verse[1], fetched |-> q.fetched])
                  ELSE None
    /\ proc' = [proc EXCEPT ![p] =
                  IF Tail(q.wbuf) = << >> THEN Exited(q1, ExitSuccess, << >>) ELSE q1]
    /\ UNCHANGED << now, ticks >>

\* line 194: a write fails and unwrap() panics
WriteFail(p) ==
    LET q == proc[p] IN
    /\ q.pc = "writing"
    /\ q.wbuf # << >>
    /\ proc' = [proc EXCEPT ![p] =
                  Exited(q, ExitPanic,
                         PanicLines("called Result::unwrap() on an Err value"))]
    /\ UNCHANGED << now, ticks, slot, lastWriter, written >>

\* time passes
Tick ==
    /\ ticks < MaxTicks
    /\ \E d \in TickSteps : now' = now + d
    /\ ticks' = ticks + 1
    /\ UNCHANGED << slot, lastWriter, written, proc >>

Step(p) ==
    \/ OpenCache(p) \/ Stat(p) \/ ReadCache(p) \/ FetchCorrupt(p) \/ FetchElse(p)
    \/ PrintVerse(p) \/ BeginWrite(p) \/ WriteChunk(p) \/ WriteFail(p)

\* invocations one after the other
Next == Start(1) \/ Step(1) \/ Tick

Spec == Init /\ [][Next]_vars

\* lines 165-168 against a service that answers with any array of fragments
FetchWide(p) ==
    LET q == proc[p] IN
    /\ q.pc = "resolve"
    /\ ~(q.cache # None /\ q.cache[1].fresh)
    /\ \E r \in WideResponses :
          proc' = [proc EXCEPT ![p] = Fetched(q, r, WriteCacheOnFetch(q.args))]
    /\ UNCHANGED << now, ticks, slot, lastWriter, written >>

\* an invocation that goes straight to the network: a passage, or the verse
\* of the day with --no-cache; any switches of the title line.  It leaves
\* nothing behind, so one invocation is all there is to see.
StartDirect(p) ==
    /\ proc[p].pc = "idle"
    /\ \E a \in ArgSetDisplay :
          /\ ~UseCache(a)
          /\ proc' = [proc EXCEPT ![p] =
                        [Idle EXCEPT !.pc = "open", !.args = a, !.slot0 = slot]]
    /\ UNCHANGED << now, ticks, slot, lastWriter, written >>

NextFetch ==
    StartDirect(1) \/ OpenCache(1) \/ FetchWide(1) \/ PrintVerse(1) \/ BeginWrite(1)

\* an invocation that fetches, formats and prints
SpecFetch == Init /\ [][NextFetch]_vars

\* two invocations of the verse of the day with the cache in use, started
\* at any time and running side by side
StartConc(p) ==
    /\ proc[p].pc = "idle"
    /\ \E a \in ArgSet :
          /\ UseCache(a)
          /\ proc' = [proc EXCEPT ![p] =
                        [Idle EXCEPT !.pc = "open", !.args = a, !.slot0 = slot]]
    /\ UNCHANGED << now, ticks, slot, lastWriter, written >>

\* time passes before the first of the two starts; they then run within
\* the same second
TickBefore == (\A p \in Procs : proc[p].pc = "idle") /\ Tick

NextConc == (\E p \in Procs : StartConc(p) \/ Step(p)) \/ TickBefore

SpecConc == Init /\ [][NextConc]_vars

\* ------------------------------------------------------------- properties

\* the verses the remote service can answer with
Verses == { fetch_verse(r).verse : r \in { x \in Responses : fetch_verse(x).kind = "ok" } }

IsPrefix(a, b) == Len(a) <= Len(b) /\ SubSeq(b, 1, Len(a)) = a

\* the bytes b start with the serialization of the verse v
Holds(b, v) == IsPrefix(Serialize(v), b)

\* the bytes b do not decode to a verse
Corrupt(b) == Deserialize(b) = None

Count(log, e) == Len(SelectSeq(log, LAMBDA x : x = e))

Did(q, e) == Count(q.log, e) > 0

\* the reads, network calls and writes of an invocation, in their order
Effects(q) == SelectSeq(q.log, LAMBDA x : x \in {"read", "net", "write"})

Votd(q) == q.args.verse = << >>

\* the invocation is on the path that uses the cache file
CachePath(q) == Votd(q) /\ ~q.args.no_cache /\ q.cache_dir

Finished(q) == q.pc = "done"

Succeeded(q) == Finished(q) /\ q.exit = Some(ExitSuccess)

FetchedOk(q) == q.resp # None /\ q.resp[1].status = "ok" /\ q.verse # None /\ Did(q, "net")

WriteFailed(q) ==
    Finished(q) /\ q.stderr = PanicLines("called Result::unwrap() on an Err value")

\* C1: with no passage, the cache in use, no forced refresh, a file at most
\* 6 hours old whose bytes decode to a verse: the invocation makes no
\* network call, does not write the file, and its verse is the cached one,
\* the verse whose serialization the file starts with.
C1_FreshHitServedFromCache ==
    \A p \in Procs :
        LET q == proc[p] IN
        ( /\ Finished(q) /\ CachePath(q) /\ ~q.args.refresh_cache
          /\ q.slot0.exists /\ ~Corrupt(q.slot0.bytes)
          /\ q.now - q.stamp <= CACHE_EXPIRE_TIME )
        => /\ ~Did(q, "net") /\ ~Did(q, "write")
           /\ slot = q.slot0
           /\ q.verse # None /\ Holds(q.slot0.bytes, q.verse[1])
           /\ Succeeded(q)

\* a hit on a file that is exactly 6 hours old
C1_Witness ==
    LET q == proc[1] IN
    /\ Finished(q) /\ CachePath(q) /\ ~q.args.refresh_cache
    /\ q.slot0.exists /\ Holds(q.slot0.bytes, VerseJ312)
    /\ q.now - q.stamp = CACHE_EXPIRE_TIME
    /\ q.verse = Some(VerseJ312)

\* C2: with no passage and the cache in use, when the file is older than
\* 6 hours, or missing, or a refresh is forced, or the bytes are no verse:
\* exactly one network call is made, the invocation fails only if the fetch
\* or the write-back itself fails, and after a successful fetch the verse is
\* written back, so that the file holds it once the write has gone through.
C2_MissFetchesOnceAndWritesBack ==
    \A p \in Procs :
        LET q == proc[p] IN
        ( /\ Finished(q) /\ CachePath(q)
          /\ \/ q.now - q.stamp > CACHE_EXPIRE_TIME
             \/ ~q.slot0.exists
             \/ q.args.refresh_cache
             \/ Corrupt(q.slot0.bytes) )
        => /\ Count(q.log, "net") = 1
           /\ (Succeeded(q) \/ ~FetchedOk(q) \/ WriteFailed(q))
           /\ FetchedOk(q) =>
                 /\ Count(q.log, "write") = 1
                 /\ Succeeded(q) =>
                       /\ Holds(slot.bytes, q.verse[1])
                       /\ Deserialize(slot.bytes) = q.verse
                       /\ q.verse[1] = fetch_verse(q.resp[1]).verse
                       /\ slot.mtime >= q.now

\* a fresh file that does not decode, refetched and overwritten
C2_Witness ==
    LET q == proc[1] IN
    /\ Succeeded(q) /\ CachePath(q) /\ ~q.args.refresh_cache
    /\ q.slot0.exists /\ Corrupt(q.slot0.bytes) /\ q.slot0.bytes # << >>
    /\ q.now - q.stamp <= CACHE_EXPIRE_TIME
    /\ Effects(q) = << "read", "net", "write" >>
    /\ Holds(slot.bytes, VerseJ31)

\* C3: with a passage on the command line the cache file is never opened,
\* created, read or written, whatever the switches and the file's state;
\* the file's existence, bytes and modification time stay as they were.
C3_ExplicitPassageLeavesCacheAlone ==
    \A p \in Procs :
        LET q == proc[p] IN
        (q.pc # "idle" /\ ~Votd(q))
        => /\ \A e \in {"open", "create", "read", "write", "warn"} : ~Did(q, e)
           /\ slot = q.slot0
           /\ Finished(q) => Count(q.log, "net") = 1

\* a passage fetched with the cache switched on and a fresh verse in the file
C3_Witness ==
    LET q == proc[1] IN
    /\ Succeeded(q) /\ ~Votd(q) /\ ~q.args.no_cache /\ ~q.args.refresh_cache
    /\ q.cache_dir /\ q.slot0.exists /\ Holds(q.slot0.bytes, VerseJ312)
    /\ now - slot.mtime <= CACHE_EXPIRE_TIME
    /\ q.verse = Some(VerseJ31)

\* C4: with --no-cache the cache file is not opened, read or written,
\* whatever its age and whether or not a refresh is forced; the verse comes
\* from one network fetch and the file stays as it was.
C4_NoCacheDoesNoCacheIO ==
    \A p \in Procs :
        LET q == proc[p] IN
        (q.pc # "idle" /\ q.args.no_cache)
        => /\ \A e \in {"open", "create", "read", "write"} : ~Did(q, e)
           /\ slot = q.slot0
           /\ Finished(q) => q.log = << "net" >>
           /\ Succeeded(q) => q.verse = Some(fetch_verse(q.resp[1]).verse)

\* the verse of the day with --no-cache and --refresh-cache over a fresh file
C4_Witness ==
    LET q == proc[1] IN
    /\ Succeeded(q) /\ Votd(q) /\ q.args.no_cache /\ q.args.refresh_cache
    /\ q.slot0.exists /\ Holds(q.slot0.bytes, VerseJ312)
    /\ now - slot.mtime <= CACHE_EXPIRE_TIME
    /\ q.verse = Some(VerseJ31)

\* C5: on the cache path, a successful fetch followed by a failed write-back
\* still ends in success: the fetched verse and exit code 0.
C5_WriteFailureStillSucceeds ==
    \A p \in Procs :
        LET q == proc[p] IN
        (Finished(q) /\ CachePath(q) /\ FetchedOk(q) /\ Did(q, "write"))
        => /\ q.exit = Some(ExitSuccess)
           /\ q.verse = Some(fetch_verse(q.resp[1]).verse)

\* the fetch of the verse of the day got an empty array
EmptyResponse(q) == Votd(q) /\ q.resp = Some([status |-> "ok", body |-> << >>])

\* C6: a request for the verse of the day answered with an empty array makes
\* the invocation fail with the empty-response diagnostic, without a verse,
\* and the cache file is not written in that invocation.
C6_EmptyResponseFailsWithoutWrite ==
    \A p \in Procs :
        LET q == proc[p] IN
        EmptyResponse(q)
        => /\ Finished(q)
           /\ q.exit # None /\ q.exit # Some(ExitSuccess)
           /\ \E i \in 1..Len(q.stderr) : q.stderr[i] = "No verses returned"
           /\ q.verse = None
           /\ ~Did(q, "write")
           /\ slot.bytes = q.slot0.bytes

\* an empty array on the cache path, with a stale verse in the file
C6_Witness ==
    LET q == proc[1] IN
    /\ EmptyResponse(q) /\ CachePath(q)
    /\ q.slot0.exists /\ Holds(q.slot0.bytes, VerseJ312)
    /\ q.now - q.stamp > CACHE_EXPIRE_TIME
    /\ Finished(q)

\* the fetch failed: a reqwest error, an empty array, or a chapter or verse
\* that is no integer
FetchFailed(q) == q.resp # None /\ fetch_verse(q.resp[1]).kind # "ok"

\* C7: every fetch error ends the invocation with exit code 1 and one line
\* on the error stream, and the exit code is 0 exactly when a verse was
\* resolved.
C7_FetchErrorsExitOne ==
    \A p \in Procs :
        LET q == proc[p] IN
        Finished(q)
        => /\ FetchFailed(q) => (q.exit = Some(ExitFetchError) /\ Len(q.stderr) = 1)
           /\ (q.exit = Some(ExitSuccess)) <=> (q.verse # None)

\* C8: an invocation makes at most one cache read, one network call and one
\* cache write, in that order, and writes only after a network call of the
\* same invocation has given it a verse.
C8_EffectsOnceAndInOrder ==
    \A p \in Procs :
        LET q == proc[p] IN
        /\ Effects(q) \in { << >>, << "read" >>, << "net" >>, << "read", "net" >>,
                            << "net", "write" >>, << "read", "net", "write" >> }
        /\ Did(q, "write") =>
              /\ FetchedOk(q)
              /\ q.verse = Some(fetch_verse(q.resp[1]).verse)

\* a read, a network call and a write in one invocation
C8_Witness ==
    LET q == proc[1] IN
    Succeeded(q) /\ Effects(q) = << "read", "net", "write" >>

\* C10: with no passage, the cache switched on and no cache directory, the
\* invocation tells the caller once and goes on as with --no-cache: one
\* network fetch, the cache file neither opened, read nor written, and a
\* successful end with the fetched verse when the fetch succeeds.
C10_NoCacheDirectoryFallsBackToFetch ==
    \A p \in Procs :
        LET q == proc[p] IN
        (q.pc \notin {"idle", "open"} /\ Votd(q) /\ ~q.args.no_cache /\ ~q.cache_dir)
        => /\ Count(q.log, "warn") = 1
           /\ \A e \in {"open", "create", "read", "write"} : ~Did(q, e)
           /\ slot = q.slot0
           /\ Finished(q) =>
                 /\ q.log = << "warn", "net" >>
                 /\ FetchedOk(q) =>
                       (Succeeded(q) /\ q.verse = Some(fetch_verse(q.resp[1]).verse))
                 /\ FetchFailed(q) => ~Succeeded(q)

\* no cache directory, and the verse of the day fetched all the same
C10_Witness ==
    LET q == proc[1] IN
    /\ Succeeded(q) /\ Votd(q) /\ ~q.args.no_cache /\ ~q.cache_dir
    /\ q.slot0.exists /\ q.verse = Some(VerseJ31)

\* C9: of two invocations running side by side on the cache path, each
\* produces a verse when its fetch succeeds, and once both have ended, with
\* no write failed, the file holds the verse of the one that wrote last.
C9_LastWriterWins ==
    ( /\ \A p \in Procs : Finished(proc[p]) /\ CachePath(proc[p]) /\ ~WriteFailed(proc[p])
      /\ lastWriter # 0 )
    => /\ \A p \in Procs : FetchedOk(proc[p]) => Succeeded(proc[p])
       /\ Deserialize(slot.bytes) = proc[lastWriter].verse

\* C9, first half alone: between the two of them, an invocation whose fetch
\* succeeds gets to print its verse
C9_NoCrashWithoutFault ==
    \A p \in Procs :
        (Finished(proc[p]) /\ FetchedOk(proc[p]) /\ ~WriteFailed(proc[p]))
        => Succeeded(proc[p])

\* ------------------------------------------- properties of what is fetched

\* the numerals of the fragments that stand for an integer, each with the
\* decimal form of that integer: "3", "03", "4", "1", "2", "+1", "16"
Numerals ==
    { [s |-> <<51>>, canon |-> <<51>>], [s |-> <<48, 51>>, canon |-> <<51>>],
      [s |-> <<52>>, canon |-> <<52>>], [s |-> <<49>>, canon |-> <<49>>],
      [s |-> <<50>>, canon |-> <<50>>], [s |-> <<43, 49>>, canon |-> <<49>>],
      [s |-> <<49, 54>>, canon |-> <<49, 54>>] }

IsNumeral(s) == \E n \in Numerals : n.s = s

Canon(s) == (CHOOSE n \in Numerals : n.s = s).canon

\* the fragments of the response are ones fetch_verse can make a title of
WellFormed(body) ==
    /\ body # << >>
    /\ IsNumeral(body[1].chapter) /\ IsNumeral(body[1].verse)
    /\ IsNumeral(body[Len(body)].verse)

\* "{book} {chapter}:{verse}"
SingleTitle(f) == f.bookname \o <<32>> \o Canon(f.chapter) \o <<58>> \o Canon(f.verse)

\* "{book} {chapter}:{verseStart}-{verseEnd}"
RangeTitle(first, last) == SingleTitle(first) \o <<45>> \o Canon(last.verse)

\* the process got the array body from the service
Got(q, body) == q.resp = Some([status |-> "ok", body |-> body])

\* C11: for a response of one fragment the title is "{book} {chapter}:{verse}"
\* of that fragment's book, chapter number and verse number, with no range
\* after it.
C11_SingleFragmentTitle ==
    \A p \in Procs : \A f \in Fragments :
        LET q == proc[p] IN
        (Got(q, << f >>) /\ WellFormed(<< f >>))
        => /\ q.verse # None
           /\ q.verse[1].title = SingleTitle(f)

\* chapter "03" and verse "+1" of book J give the title "J 3:1"
C11_Witness ==
    LET q == proc[1] IN
    /\ Got(q, << ApiJ03p1 >>)
    /\ q.verse # None /\ q.verse[1].title = << 74, 32, 51, 58, 49 >>

\* C12 as stated: for a response of two or more fragments the title is
\* "{book} {chapter}:{verseStart}-{verseEnd}", of the first fragment's book,
\* chapter and verse number and the last fragment's verse number.
C12_MultiFragmentTitleIsRange ==
    \A p \in Procs :
        LET q == proc[p] IN
        (q.resp # None /\ Len(q.resp[1].body) >= 2 /\ WellFormed(q.resp[1].body))
        => /\ q.verse # None
           /\ q.verse[1].title =
                 RangeTitle(q.resp[1].body[1], q.resp[1].body[Len(q.resp[1].body)])

\* C12 amended: for a response of two or more fragments the title is the
\* range when the first and the last verse number differ, and
\* "{book} {chapter}:{verse}" without a range when they are equal.
C12_MultiFragmentTitle ==
    \A p \in Procs :
        LET q    == proc[p]
            body == q.resp[1].body
            last == body[Len(body)]
        IN
        (q.resp # None /\ Len(q.resp[1].body) >= 2 /\ WellFormed(q.resp[1].body))
        => /\ q.verse # None
           /\ q.verse[1].title =
                 IF Canon(body[1].verse) # Canon(last.verse)
                 THEN RangeTitle(body[1], last)
                 ELSE SingleTitle(body[1])

\* three fragments, verses 1, 2 and 16: the title is "J 3:1-16"
C12_Witness ==
    LET q == proc[1] IN
    /\ Got(q, << ApiJ31, ApiJ32bc, ApiJ316 >>)
    /\ q.verse # None /\ q.verse[1].title = << 74, 32, 51, 58, 49, 45, 49, 54 >>

\* the length of the texts of the first i fragments
RECURSIVE TextLen(_, _)
TextLen(body, i) == IF i = 0 THEN 0 ELSE TextLen(body, i - 1) + Len(body[i].text)

\* C13: the text of the verse is the texts of the fragments one after the
\* other in the order of the response: each fragment's text stands at the
\* place where the texts before it end, and nothing stands after the last.
C13_TextIsConcatenation ==
    \A p \in Procs :
        LET q    == proc[p]
            body == q.resp[1].body
            text == q.verse[1].text
        IN
        (q.resp # None /\ q.resp[1].status = "ok" /\ WellFormed(q.resp[1].body))
        => /\ q.verse # None
           /\ Len(text) = TextLen(body, Len(body))
           /\ \A i \in 1..Len(body) :
                 SubSeq(text, TextLen(body, i - 1) + 1, TextLen(body, i)) = body[i].text

\* texts "a", "bc" and "d" give "abcd"
C13_Witness ==
    LET q == proc[1] IN
    /\ Got(q, << ApiJ31, ApiJ32bc, ApiJ316 >>)
    /\ q.verse # None /\ q.verse[1].text = << 97, 98, 99, 100 >>

\* the verse has been printed
Printed(q) == q.pc \in {"write", "writing", "done"} /\ q.verse # None

\* C14: with --only-verse there is no title line; otherwise the title line
\* is the title of the verse followed by " (Verse of the Day - NET)" for
\* the verse of the day with the translation, " (NET)" for a passage with
\* the translation, " (Verse of the Day)" for the verse of the day without
\* it, and nothing for a passage without it.
C14_TitleLine ==
    \A p \in Procs :
        LET q    == proc[p]
            a    == q.args
            body == [text |-> q.verse[1].text]
            line(suffix) == [title |-> q.verse[1].title, suffix |-> suffix]
        IN
        Printed(q)
        => /\ a.only_verse => q.stdout = << body >>
           /\ (~a.only_verse /\ Votd(q) /\ a.show_translation)
                 => q.stdout = << line(" (Verse of the Day - NET)"), body >>
           /\ (~a.only_verse /\ ~Votd(q) /\ a.show_translation)
                 => q.stdout = << line(" (NET)"), body >>
           /\ (~a.only_verse /\ Votd(q) /\ ~a.show_translation)
                 => q.stdout = << line(" (Verse of the Day)"), body >>
           /\ (~a.only_verse /\ ~Votd(q) /\ ~a.show_translation)
                 => q.stdout = << line(""), body >>

\* the verse of the day printed without the translation
C14_Witness ==
    LET q == proc[1] IN
    /\ Printed(q) /\ Votd(q) /\ ~q.args.only_verse /\ ~q.args.show_translation
    /\ Len(q.stdout) = 2 /\ q.stdout[1].suffix = " (Verse of the Day)"

\* C15: a verse that a successful invocation ends with has a text that is
\* not empty.
C15_TextNotEmpty ==
    \A p \in Procs :
        LET q == proc[p] IN
        (Succeeded(q) /\ q.verse # None) => q.verse[1].text # << >>

\* --------------------------------------- properties of the file over time

\* the invocation has looked at the file's modification time
Stamped(q) == q.pc \in {"resolve", "refetch", "print", "write", "writing", "done"}
              /\ q.cache # None

\* the age of the file as the invocation saw it, in whole seconds
Age(q) == q.now - q.stamp

\* the invocation ended with a verse read from the file
Hit(q) == Finished(q) /\ Did(q, "read") /\ ~Did(q, "net") /\ q.verse # None

\* C16: once a write-back has gone through, the bytes of the file are the
\* serialization of the verse written and nothing more, whatever the file
\* held before.
C16_SlotIsOneSerialization ==
    written # None => slot.bytes = Serialize(written[1].verse)

\* C17: the file counts as fresh exactly when no refresh is forced and its
\* age in whole seconds is at most 21600; at 21600 the verse is read from
\* the file and, when the bytes decode, served without a fetch; at 21601
\* the file is not read and the verse is fetched.
C17_FreshnessBoundary ==
    \A p \in Procs :
        LET q == proc[p] IN
        Stamped(q)
        => /\ q.cache[1].fresh <=> (~q.args.refresh_cache /\ Age(q) <= 21600)
           /\ (Age(q) = 21600 /\ ~q.args.refresh_cache /\ Finished(q))
                 => /\ Did(q, "read")
                    /\ ~Corrupt(q.slot0.bytes) => Hit(q)
           /\ (Age(q) = 21601 /\ Finished(q))
                 => ~Did(q, "read") /\ Count(q.log, "net") = 1

\* a file holding a verse, 21601 seconds old: the verse is fetched
C17_Witness ==
    LET q == proc[1] IN
    /\ Finished(q) /\ Stamped(q) /\ ~q.args.refresh_cache
    /\ Age(q) = 21601 /\ Holds(q.slot0.bytes, VerseJ312)
    /\ Effects(q) = << "net", "write" >> /\ Succeeded(q)

\* C18: after a write-back of a verse has gone through, an invocation that
\* uses the cache, forces no refresh and finds the file fresh ends with
\* that verse, read from the file without a fetch, whatever the file held
\* before the write.
C18_WriteThenReadRoundTrip ==
    \A p \in Procs :
        LET q == proc[p] IN
        ( /\ Finished(q) /\ CachePath(q) /\ ~q.args.refresh_cache
          /\ written # None /\ ~Did(q, "write")
          /\ Age(q) <= CACHE_EXPIRE_TIME )
        => /\ Hit(q) /\ Succeeded(q)
           /\ q.verse = Some(written[1].verse)

\* "J 3:1" written over the longer "J 3:1-2", then read back
C18_Witness ==
    LET q == proc[1] IN
    /\ Hit(q) /\ CachePath(q)
    /\ written # None /\ written[1].verse = VerseJ31
    /\ Len(slot.bytes) > Len(Serialize(VerseJ31))
    /\ q.verse = Some(VerseJ31)

\* C19 as stated: a hit leaves the bytes and the modification time of the
\* file as they were, and the verse it serves was fetched at most 21600
\* seconds before.
C19_HitServesVerseFetchedWithinTtl ==
    \A p \in Procs :
        LET q == proc[p] IN
        (Hit(q) /\ written # None)
        => /\ slot = q.slot0
           /\ q.now - written[1].fetched <= CACHE_EXPIRE_TIME

\* C19 amended: a hit leaves the bytes and the modification time of the
\* file as they were, and the file it serves from was last modified at most
\* 21600 seconds before; a hit after a hit sees the same modification time.
C19_HitLeavesSlotAndServesWithinTtlOfWrite ==
    \A p \in Procs :
        LET q == proc[p] IN
        Hit(q)
        => /\ slot = q.slot0
           /\ q.stamp = q.slot0.mtime
           /\ q.now - slot.mtime <= CACHE_EXPIRE_TIME

\* a hit on a file written by an earlier invocation, when time has passed
C19_Witness ==
    LET q == proc[1] IN
    /\ Hit(q) /\ written # None /\ q.verse = Some(written[1].verse)
    /\ q.now > slot.mtime

\* C20 as stated: when the fetch fails on the path that uses the cache, the
\* file is as it was before the invocation: there or not, bytes and
\* modification time.
C20_FailedFetchLeavesSlotAsBefore ==
    \A p \in Procs :
        LET q == proc[p] IN
        (Finished(q) /\ CachePath(q) /\ FetchFailed(q)) => slot = q.slot0

\* C20 amended: when the fetch fails on the path that uses the cache, a file
\* that was there keeps its bytes and its modification time, and a file that
\* was not there has been created empty by the open, with the time of the
\* open; nothing is written.
C20_FailedFetchLeavesBytes ==
    \A p \in Procs :
        LET q == proc[p] IN
        (Finished(q) /\ CachePath(q) /\ FetchFailed(q))
        => /\ ~Did(q, "write")
           /\ IF q.slot0.exists THEN slot = q.slot0
              ELSE /\ slot.exists /\ slot.bytes = << >>
                   /\ slot.mtime <= q.now /\ Did(q, "create")

\* a failed fetch with no file before: the empty file of the open is left
C20_Witness ==
    LET q == proc[1] IN
    /\ Finished(q) /\ CachePath(q) /\ FetchFailed(q)
    /\ ~q.slot0.exists /\ slot.exists /\ slot.bytes = << >>

\* a failed fetch over a stale verse with a forced refresh
C20_WitnessStale ==
    LET q == proc[1] IN
    /\ Finished(q) /\ CachePath(q) /\ FetchFailed(q) /\ q.args.refresh_cache
    /\ q.slot0.exists /\ Holds(slot.bytes, VerseJ312) /\ Age(q) > CACHE_EXPIRE_TIME

====
